---- MODULE Spec2Model ----
(***************************************************************************)
(* go-aws-msg, package sqs.                                                *)
(*                                                                         *)
(*   Server         (server source)  Serve loop, handler goroutines,       *)
(*                                   Shutdown, NewServer                   *)
(*   MessageWriter  (sqs/topic.go)   Write, Close, SetDelay                *)
(*                                                                         *)
(* The server and the writer share no state: Spec is the server's state    *)
(* machine, SpecW the writer's.  Each leaves the other's variables alone.  *)
(***************************************************************************)
EXTENDS Integers, Sequences, FiniteSets, TLC

\* ------------------------------------------------------------------ bounds
\* largest concurrency argument handed to NewServer (0 is coerced to 1)
MaxCl == 2
\* messages the queue delivers in one run, over all receive calls
MaxMsgs == 2
\* messages one ReceiveMessage response carries (the code asks for up to 10)
MaxBatch == 2
\* Shutdown calls made on the server, one after the other
MaxShutdownCalls == 1

\* goroutines that use one MessageWriter
NumWThreads == 2
\* Write and Close calls made on one MessageWriter
MaxWCalls == 3

ClArgs == 0..MaxCl
RetryTimeouts == {5, 30}
Handles == 1..MaxMsgs
RecvErrors == {"errRecvA", "errRecvB"}

VARIABLES
    \* ---- Server (NewServer's arguments and the Server struct)
    clArg,          \* NewServer's cl argument
    retryTimeout,   \* Server.retryTimeout
    gateCap,        \* cap(Server.maxConcurrentReceives)
    gateLen,        \* len(Server.maxConcurrentReceives)
    gateClosed,     \* close(Server.maxConcurrentReceives) has run
    serverDone,     \* Server.serverCtx is cancelled
    receiverDone,   \* Server.receiverCtx is cancelled
    \* ---- the goroutine running Serve
    srvPc,          \* "idle" | "select" | "receive" | "acquire" | "spawn" | "returned"
    srvRet,         \* what Serve returned
    recvErr,        \* the error the queue client returned from ReceiveMessage
    received,       \* messages returned by ReceiveMessage so far (handles 1..received)
    dispatched,     \* messages for which the go statement has run
    \* ---- one handler goroutine per receipt handle
    hpc,            \* "none" | "Receive" | "ack" | "release" | "done"
    hret,           \* what r.Receive returned: "none" | "nil" | "err"
    hack,           \* what the DeleteMessage / ChangeMessageVisibility call returned
    \* ---- the queue client, as the calls it has seen
    deleted,        \* handle -> number of DeleteMessage calls with that ReceiptHandle
    visChanged,     \* handle -> the VisibilityTimeout of each ChangeMessageVisibility call
    \* ---- the goroutine calling Shutdown
    sdPc,           \* "idle" | "enter" (before the select) | "select" (blocked in it)
                    \* | "tick" | "ctxcase" (woken with that case) | "returned"
    sdCalls,        \* Shutdown calls made so far
    sdRet,          \* what the last Shutdown returned
    ctxDone,        \* the ctx of the current Shutdown call is done
    ctxExpiredAtCall, \* that ctx was already done when Shutdown was called
    ctxDoneBusy,    \* the gate held a slot at the moment that ctx became done
    \* ---- MessageWriter
    wbuf,           \* MessageWriter.buf
    wclosed,        \* MessageWriter.closed
    wmux,           \* MessageWriter.mux: 0 when free, else the goroutine holding it
    wdelay,         \* MessageWriter.delaySeconds
    wpc,            \* per goroutine: "idle" | "Write" | "Close" | "Send"
    warg,           \* per goroutine: the p of its Write
    wret,           \* per goroutine: what its last call returned
    wsawClosed,     \* per goroutine: closed, as it was when its call took the lock
    sends,          \* the SendMessageInput of each SendMessageWithContext call
    sendRets,       \* what each of those calls returned
    wcalls,         \* Write and Close calls made so far
    wlastDelay,     \* the argument of the last SetDelay
    wokBytes        \* the bytes of the Writes that returned no error, in the order of their return

serverVars == <<clArg, retryTimeout, gateCap, gateLen, gateClosed, serverDone,
                receiverDone, srvPc, srvRet, recvErr, received, dispatched,
                hpc, hret, hack, deleted, visChanged,
                sdPc, sdCalls, sdRet, ctxDone, ctxExpiredAtCall, ctxDoneBusy>>
writerVars == <<wbuf, wclosed, wmux, wdelay, wpc, warg, wret, wsawClosed, sends,
                sendRets, wcalls, wlastDelay, wokBytes>>
vars == <<serverVars, writerVars>>

serveVars == <<srvPc, srvRet, recvErr, received, dispatched>>
handlerVars == <<hpc, hret, hack, deleted, visChanged>>
shutdownVars == <<sdPc, sdCalls, sdRet, ctxDone, ctxExpiredAtCall, ctxDoneBusy>>
configVars == <<clArg, retryTimeout, gateCap>>

\* ------------------------------------------------------------ NewServer
\* "It makes no sense to have a concurrency of less than 1."
NewServerCap(cl) == IF cl < 1 THEN 1 ELSE cl

NewServer(cl, rt) ==
    /\ clArg = cl
    /\ retryTimeout = rt
    /\ gateCap = NewServerCap(cl)
    /\ gateLen = 0
    /\ gateClosed = FALSE
    /\ serverDone = FALSE
    /\ receiverDone = FALSE

\* handler invocations dispatched that have not released their slot
InFlight == Cardinality({h \in Handles : hpc[h] \in {"Receive", "ack", "release"}})

\* ---------------------------------------------------------------- Serve
\* Serve(r) is invoked: the goroutine stands at the select of the for loop
ServeStart ==
    /\ srvPc = "idle"
    /\ srvPc' = "select"
    /\ UNCHANGED <<srvRet, recvErr, received, dispatched>>
    /\ UNCHANGED <<configVars, gateLen, gateClosed, serverDone, receiverDone>>
    /\ UNCHANGED <<handlerVars, shutdownVars, writerVars>>

\* a mutant of ServeSelect: the select has only its default case
ServeSelectIgnoresDone ==
    /\ srvPc = "select"
    /\ srvPc' = "receive"
    /\ UNCHANGED <<gateClosed, srvRet>>
    /\ UNCHANGED <<recvErr, received, dispatched>>
    /\ UNCHANGED <<configVars, gateLen, serverDone, receiverDone>>
    /\ UNCHANGED <<handlerVars, shutdownVars, writerVars>>

\* a mutant of ServeSelect: the close empties the channel
ServeSelectCloseDrains ==
    /\ srvPc = "select"
    /\ IF serverDone
         THEN /\ gateClosed' = TRUE
              /\ gateLen' = 0
              /\ srvPc' = "returned"
              /\ srvRet' = "ErrServerClosed"
         ELSE /\ srvPc' = "receive"
              /\ UNCHANGED <<gateClosed, gateLen, srvRet>>
    /\ UNCHANGED <<recvErr, received, dispatched>>
    /\ UNCHANGED <<configVars, serverDone, receiverDone>>
    /\ UNCHANGED <<handlerVars, shutdownVars, writerVars>>

\* select { case <-s.serverCtx.Done(): close; return ErrServerClosed
\*          default: s.Svc.ReceiveMessage(...) }
ServeSelect ==
    /\ srvPc = "select"
    /\ IF serverDone
         THEN /\ gateClosed' = TRUE
              /\ srvPc' = "returned"
              /\ srvRet' = "ErrServerClosed"
         ELSE /\ srvPc' = "receive"
              /\ UNCHANGED <<gateClosed, srvRet>>
    /\ UNCHANGED <<recvErr, received, dispatched>>
    /\ UNCHANGED <<configVars, gateLen, serverDone, receiverDone>>
    /\ UNCHANGED <<handlerVars, shutdownVars, writerVars>>

\* ReceiveMessage returns n messages and no error; the range loop starts
ServeReceiveOk(n) ==
    /\ srvPc = "receive"
    /\ received + n <= MaxMsgs
    /\ received' = received + n
    /\ srvPc' = IF n = 0 THEN "select" ELSE "acquire"
    /\ UNCHANGED <<srvRet, recvErr, dispatched>>
    /\ UNCHANGED <<configVars, gateLen, gateClosed, serverDone, receiverDone>>
    /\ UNCHANGED <<handlerVars, shutdownVars, writerVars>>

\* a mutant of ServeReceiveErr: the failed receive is retried
ServeReceiveErrRetry(e) ==
    /\ srvPc = "receive"
    /\ recvErr' = e
    /\ srvPc' = "select"
    /\ UNCHANGED <<srvRet, received, dispatched>>
    /\ UNCHANGED <<configVars, gateLen, gateClosed, serverDone, receiverDone>>
    /\ UNCHANGED <<handlerVars, shutdownVars, writerVars>>

\* ReceiveMessage returns the error e: "if err != nil { ...; return err }"
ServeReceiveErr(e) ==
    /\ srvPc = "receive"
    /\ recvErr' = e
    /\ srvPc' = "returned"
    /\ srvRet' = e
    /\ UNCHANGED <<received, dispatched>>
    /\ UNCHANGED <<configVars, gateLen, gateClosed, serverDone, receiverDone>>
    /\ UNCHANGED <<handlerVars, shutdownVars, writerVars>>

\* a mutant of ServeAcquire: the slot is taken without waiting for room
ServeAcquireNoBlock ==
    /\ srvPc = "acquire"
    /\ gateLen' = gateLen + 1
    /\ srvPc' = "spawn"
    /\ UNCHANGED <<srvRet, recvErr, received, dispatched>>
    /\ UNCHANGED <<configVars, gateClosed, serverDone, receiverDone>>
    /\ UNCHANGED <<handlerVars, shutdownVars, writerVars>>

\* a mutant of ServeAcquire: the channel has room for one element more than cl
ServeAcquireOneMore ==
    /\ srvPc = "acquire"
    /\ gateLen <= gateCap
    /\ gateLen' = gateLen + 1
    /\ srvPc' = "spawn"
    /\ UNCHANGED <<srvRet, recvErr, received, dispatched>>
    /\ UNCHANGED <<configVars, gateClosed, serverDone, receiverDone>>
    /\ UNCHANGED <<handlerVars, shutdownVars, writerVars>>

\* s.maxConcurrentReceives <- struct{}{}: blocks while the channel is full
ServeAcquire ==
    /\ srvPc = "acquire"
    /\ gateLen < gateCap
    /\ gateLen' = gateLen + 1
    /\ srvPc' = "spawn"
    /\ UNCHANGED <<srvRet, recvErr, received, dispatched>>
    /\ UNCHANGED <<configVars, gateClosed, serverDone, receiverDone>>
    /\ UNCHANGED <<handlerVars, shutdownVars, writerVars>>

\* go func(sqsMsg){...}(m): the handler goroutine of the next message of the
\* batch starts, and the range loop goes to its next message or back to select
ServeSpawn ==
    /\ srvPc = "spawn"
    /\ dispatched' = dispatched + 1
    /\ hpc' = [hpc EXCEPT ![dispatched + 1] = "Receive"]
    /\ srvPc' = IF dispatched + 1 < received THEN "acquire" ELSE "select"
    /\ UNCHANGED <<srvRet, recvErr, received>>
    /\ UNCHANGED <<configVars, gateLen, gateClosed, serverDone, receiverDone>>
    /\ UNCHANGED <<hret, hack, deleted, visChanged, shutdownVars, writerVars>>

\* ------------------------------------------------- the handler goroutine
\* err := r.Receive(s.receiverCtx, m) returns
HandlerReceive(h, ret) ==
    /\ hpc[h] = "Receive"
    /\ hret' = [hret EXCEPT ![h] = ret]
    /\ hpc' = [hpc EXCEPT ![h] = "ack"]
    /\ UNCHANGED <<hack, deleted, visChanged>>
    /\ UNCHANGED <<configVars, gateLen, gateClosed, serverDone, receiverDone>>
    /\ UNCHANGED <<serveVars, shutdownVars, writerVars>>

\* s.Svc.ChangeMessageVisibility(ReceiptHandle, VisibilityTimeout): the call as
\* the queue client sees it
ChangeMessageVisibility(h, timeout) ==
    visChanged' = [visChanged EXCEPT ![h] = Append(@, timeout)]

\* s.Svc.DeleteMessage(ReceiptHandle)
DeleteMessage(h) ==
    deleted' = [deleted EXCEPT ![h] = @ + 1]

\* a mutant of HandlerAck: the test of err is inverted
HandlerAckInverted(h, callRet) ==
    /\ hpc[h] = "ack"
    /\ IF hret[h] = "nil"
         THEN /\ ChangeMessageVisibility(h, retryTimeout)
              /\ UNCHANGED deleted
         ELSE /\ DeleteMessage(h)
              /\ UNCHANGED visChanged
    /\ hack' = [hack EXCEPT ![h] = callRet]
    /\ hpc' = [hpc EXCEPT ![h] = "release"]
    /\ UNCHANGED hret
    /\ UNCHANGED <<configVars, gateLen, gateClosed, serverDone, receiverDone>>
    /\ UNCHANGED <<serveVars, shutdownVars, writerVars>>

\* a mutant of HandlerAck: the visibility timeout is not the configured one
HandlerAckZeroTimeout(h, callRet) ==
    /\ hpc[h] = "ack"
    /\ IF hret[h] = "err"
         THEN /\ ChangeMessageVisibility(h, 0)
              /\ UNCHANGED deleted
         ELSE /\ DeleteMessage(h)
              /\ UNCHANGED visChanged
    /\ hack' = [hack EXCEPT ![h] = callRet]
    /\ hpc' = [hpc EXCEPT ![h] = "release"]
    /\ UNCHANGED hret
    /\ UNCHANGED <<configVars, gateLen, gateClosed, serverDone, receiverDone>>
    /\ UNCHANGED <<serveVars, shutdownVars, writerVars>>

\* a mutant of HandlerAck: the queue call does not wait for r.Receive to return
HandlerAckEarly(h, callRet) ==
    /\ hpc[h] \in {"Receive", "ack"}
    /\ IF hret[h] = "err"
         THEN /\ ChangeMessageVisibility(h, retryTimeout)
              /\ UNCHANGED deleted
         ELSE /\ DeleteMessage(h)
              /\ UNCHANGED visChanged
    /\ hack' = [hack EXCEPT ![h] = callRet]
    /\ hpc' = [hpc EXCEPT ![h] = "release"]
    /\ UNCHANGED hret
    /\ UNCHANGED <<configVars, gateLen, gateClosed, serverDone, receiverDone>>
    /\ UNCHANGED <<serveVars, shutdownVars, writerVars>>

\* a mutant of HandlerAck: a failed queue call ends Serve with that error
HandlerAckFatal(h, callRet) ==
    /\ hpc[h] = "ack"
    /\ IF hret[h] = "err"
         THEN /\ ChangeMessageVisibility(h, retryTimeout)
              /\ UNCHANGED deleted
         ELSE /\ DeleteMessage(h)
              /\ UNCHANGED visChanged
    /\ hack' = [hack EXCEPT ![h] = callRet]
    /\ hpc' = [hpc EXCEPT ![h] = "release"]
    /\ IF callRet = "err" /\ srvPc # "idle"
         THEN srvPc' = "returned" /\ srvRet' = "errAck"
         ELSE UNCHANGED <<srvPc, srvRet>>
    /\ UNCHANGED <<hret, recvErr, received, dispatched>>
    /\ UNCHANGED <<configVars, gateLen, gateClosed, serverDone, receiverDone>>
    /\ UNCHANGED <<shutdownVars, writerVars>>

\* if err != nil { ChangeMessageVisibility(...); return }
\* _, err = DeleteMessage(...); if err != nil { log }
\* callRet is what the queue client returns from the one call made
HandlerAck(h, callRet) ==
    /\ hpc[h] = "ack"
    /\ IF hret[h] = "err"
         THEN /\ ChangeMessageVisibility(h, retryTimeout)
              /\ UNCHANGED deleted
         ELSE /\ DeleteMessage(h)
              /\ UNCHANGED visChanged
    /\ hack' = [hack EXCEPT ![h] = callRet]
    /\ hpc' = [hpc EXCEPT ![h] = "release"]
    /\ UNCHANGED hret
    /\ UNCHANGED <<configVars, gateLen, gateClosed, serverDone, receiverDone>>
    /\ UNCHANGED <<serveVars, shutdownVars, writerVars>>

\* a mutant of HandlerRelease: the release is not deferred, and the return of
\* the failure path leaves without it
HandlerReleaseNotDeferred(h) ==
    /\ hpc[h] = "release"
    /\ gateLen > 0 \/ gateClosed
    /\ gateLen' = IF gateLen > 0 /\ hret[h] = "nil" THEN gateLen - 1 ELSE gateLen
    /\ hpc' = [hpc EXCEPT ![h] = "done"]
    /\ UNCHANGED <<hret, hack, deleted, visChanged>>
    /\ UNCHANGED <<configVars, gateClosed, serverDone, receiverDone>>
    /\ UNCHANGED <<serveVars, shutdownVars, writerVars>>

\* defer func() { <-s.maxConcurrentReceives }(): a receive from the buffered
\* channel takes one element, also after the channel was closed
HandlerRelease(h) ==
    /\ hpc[h] = "release"
    /\ gateLen > 0 \/ gateClosed
    /\ gateLen' = IF gateLen > 0 THEN gateLen - 1 ELSE gateLen
    /\ hpc' = [hpc EXCEPT ![h] = "done"]
    /\ UNCHANGED <<hret, hack, deleted, visChanged>>
    /\ UNCHANGED <<configVars, gateClosed, serverDone, receiverDone>>
    /\ UNCHANGED <<serveVars, shutdownVars, writerVars>>

\* ------------------------------------------------------------- Shutdown
\* a mutant of ShutdownCall: both lifetimes are cancelled at the call
ShutdownCallCancelsBoth(expired) ==
    /\ sdPc \in {"idle", "returned"}
    /\ sdCalls < MaxShutdownCalls
    /\ sdCalls' = sdCalls + 1
    /\ serverDone' = TRUE
    /\ receiverDone' = TRUE
    /\ sdPc' = "enter"
    /\ sdRet' = "none"
    /\ ctxDone' = expired
    /\ ctxExpiredAtCall' = expired
    /\ ctxDoneBusy' = (expired /\ gateLen > 0)
    /\ UNCHANGED <<configVars, gateLen, gateClosed>>
    /\ UNCHANGED <<serveVars, handlerVars, writerVars>>

\* Shutdown(ctx), ctx not nil: s.serverCancelFunc(); ticker := NewTicker(...).
\* expired: ctx is already done at the call.  The goroutine then stands before
\* its select ("enter").
ShutdownCall(expired) ==
    /\ sdPc \in {"idle", "returned"}
    /\ sdCalls < MaxShutdownCalls
    /\ sdCalls' = sdCalls + 1
    /\ serverDone' = TRUE
    /\ sdPc' = "enter"
    /\ sdRet' = "none"
    /\ ctxDone' = expired
    /\ ctxExpiredAtCall' = expired
    /\ ctxDoneBusy' = (expired /\ gateLen > 0)
    /\ UNCHANGED <<configVars, gateLen, gateClosed, receiverDone>>
    /\ UNCHANGED <<serveVars, handlerVars, writerVars>>

\* The caller's deadline elapses (or the caller cancels ctx) during Shutdown.
\* A goroutine blocked in the select is woken with the ctx.Done() case; one that
\* is between two selects finds ctx done at its next select.
DeadlineElapse ==
    /\ sdPc \in {"enter", "select", "tick"}
    /\ ~ctxDone
    /\ ctxDone' = TRUE
    /\ ctxDoneBusy' = (gateLen > 0)
    /\ sdPc' = IF sdPc = "select" THEN "ctxcase" ELSE sdPc
    /\ UNCHANGED <<sdCalls, sdRet, ctxExpiredAtCall>>
    /\ UNCHANGED <<configVars, gateLen, gateClosed, serverDone, receiverDone>>
    /\ UNCHANGED <<serveVars, handlerVars, writerVars>>

\* The ticker delivers a tick: a goroutine blocked in the select is woken with
\* the ticker.C case.  A tick comes shutdownPollInterval after the ticker was
\* made or after the tick before it, so none is pending when the goroutine
\* reaches a select by itself.
TickerFire ==
    /\ sdPc = "select"
    /\ sdPc' = "tick"
    /\ UNCHANGED <<sdCalls, sdRet, ctxDone, ctxExpiredAtCall, ctxDoneBusy>>
    /\ UNCHANGED <<configVars, gateLen, gateClosed, serverDone, receiverDone>>
    /\ UNCHANGED <<serveVars, handlerVars, writerVars>>

\* the select finds no case ready: the goroutine blocks in it
ShutdownBlock ==
    /\ sdPc = "enter"
    /\ ~ctxDone
    /\ sdPc' = "select"
    /\ UNCHANGED <<sdCalls, sdRet, ctxDone, ctxExpiredAtCall, ctxDoneBusy>>
    /\ UNCHANGED <<configVars, gateLen, gateClosed, serverDone, receiverDone>>
    /\ UNCHANGED <<serveVars, handlerVars, writerVars>>

\* a mutant of ShutdownCtxDone: the receivers are not cancelled
ShutdownCtxDoneNoCancel ==
    /\ sdPc = "ctxcase" \/ (sdPc = "enter" /\ ctxDone)
    /\ sdRet' = "ctxErr"
    /\ sdPc' = "returned"
    /\ UNCHANGED <<sdCalls, ctxDone, ctxExpiredAtCall, ctxDoneBusy>>
    /\ UNCHANGED <<configVars, gateLen, gateClosed, serverDone, receiverDone>>
    /\ UNCHANGED <<serveVars, handlerVars, writerVars>>

\* a mutant of ShutdownCtxDone: the case is taken only when the gate is empty
ShutdownCtxDoneWaits ==
    /\ sdPc = "ctxcase" \/ (sdPc = "enter" /\ ctxDone)
    /\ gateLen = 0
    /\ receiverDone' = TRUE
    /\ sdRet' = "ctxErr"
    /\ sdPc' = "returned"
    /\ UNCHANGED <<sdCalls, ctxDone, ctxExpiredAtCall, ctxDoneBusy>>
    /\ UNCHANGED <<configVars, gateLen, gateClosed, serverDone>>
    /\ UNCHANGED <<serveVars, handlerVars, writerVars>>

\* case <-ctx.Done(): s.receiverCancelFunc(); return ctx.Err()
ShutdownCtxDone ==
    /\ sdPc = "ctxcase" \/ (sdPc = "enter" /\ ctxDone)
    /\ receiverDone' = TRUE
    /\ sdRet' = "ctxErr"
    /\ sdPc' = "returned"
    /\ UNCHANGED <<sdCalls, ctxDone, ctxExpiredAtCall, ctxDoneBusy>>
    /\ UNCHANGED <<configVars, gateLen, gateClosed, serverDone>>
    /\ UNCHANGED <<serveVars, handlerVars, writerVars>>

\* case <-ticker.C: if len(s.maxConcurrentReceives) == 0 { return ErrServerClosed }
\* and otherwise the for loop comes back to the select
ShutdownTick ==
    /\ sdPc = "tick"
    /\ IF gateLen = 0
         THEN /\ sdRet' = "ErrServerClosed"
              /\ sdPc' = "returned"
         ELSE /\ sdPc' = "enter"
              /\ UNCHANGED sdRet
    /\ UNCHANGED <<sdCalls, ctxDone, ctxExpiredAtCall, ctxDoneBusy>>
    /\ UNCHANGED <<configVars, gateLen, gateClosed, serverDone, receiverDone>>
    /\ UNCHANGED <<serveVars, handlerVars, writerVars>>

\* ------------------------------------------------- the server's machine
WriterIdle ==
    /\ wbuf = <<>> /\ wclosed = FALSE /\ wmux = 0 /\ wdelay = 0
    /\ wpc = <<>> /\ warg = <<>> /\ wret = <<>> /\ wsawClosed = <<>>
    /\ sends = <<>> /\ sendRets = <<>> /\ wcalls = 0 /\ wlastDelay = 0
    /\ wokBytes = <<>>

Init ==
    /\ \E cl \in ClArgs, rt \in RetryTimeouts : NewServer(cl, rt)
    /\ srvPc = "idle" /\ srvRet = "none" /\ recvErr = "none"
    /\ received = 0 /\ dispatched = 0
    /\ hpc = [h \in Handles |-> "none"]
    /\ hret = [h \in Handles |-> "none"]
    /\ hack = [h \in Handles |-> "none"]
    /\ deleted = [h \in Handles |-> 0]
    /\ visChanged = [h \in Handles |-> <<>>]
    /\ sdPc = "idle" /\ sdCalls = 0 /\ sdRet = "none"
    /\ ctxDone = FALSE /\ ctxExpiredAtCall = FALSE /\ ctxDoneBusy = FALSE
    /\ WriterIdle

ServeStep ==
    \/ ServeStart
    \/ ServeSelect
    \/ \E n \in 0..MaxBatch : ServeReceiveOk(n)
    \/ \E e \in RecvErrors : ServeReceiveErr(e)
    \/ ServeAcquire
    \/ ServeSpawn

HandlerStep ==
    \/ \E h \in Handles, ret \in {"nil", "err"} : HandlerReceive(h, ret)
    \/ \E h \in Handles, callRet \in {"nil", "err"} : HandlerAck(h, callRet)
    \/ \E h \in Handles : HandlerRelease(h)

ShutdownStep ==
    \/ \E expired \in BOOLEAN : ShutdownCall(expired)
    \/ DeadlineElapse
    \/ TickerFire
    \/ ShutdownBlock
    \/ ShutdownCtxDone
    \/ ShutdownTick

Next == ServeStep \/ HandlerStep \/ ShutdownStep

Spec == Init /\ [][Next]_vars

\* the steps of the goroutine running Serve, once Serve has been called
ServeRuns ==
    \/ ServeSelect
    \/ \E n \in 0..MaxBatch : ServeReceiveOk(n)
    \/ \E e \in RecvErrors : ServeReceiveErr(e)
    \/ ServeAcquire
    \/ ServeSpawn

\* the steps of the goroutine inside Shutdown
ShutdownRuns == ShutdownBlock \/ ShutdownCtxDone \/ ShutdownTick

\* Spec with the scheduling the Go runtime gives the Shutdown goroutine: when
\* it can run it does.  Nothing is asked of the handlers.
FairShutdownSpec ==
    /\ Spec
    /\ WF_vars(ShutdownRuns)

\* Spec with the Serve goroutine and the handler goroutines scheduled: the loop
\* takes its next step when it can, an outstanding ReceiveMessage returns, and
\* a handler's Receive, its queue call and its release come to their end.
\* Nothing is asked of Shutdown.
FairServeSpec ==
    /\ Spec
    /\ WF_vars(ServeRuns)
    /\ WF_vars(HandlerStep)

\* Spec with the scheduling the Go runtime gives: a goroutine that can run does
\* run, an outstanding ReceiveMessage returns (the long poll is bounded), the
\* ticker keeps ticking, and (the premise of the liveness claims) a handler's
\* Receive returns.  Nothing forces Serve or Shutdown to be called, nor a
\* deadline to elapse.
FairSpec ==
    /\ Spec
    /\ WF_vars(ServeRuns)
    /\ WF_vars(HandlerStep)
    /\ WF_vars(TickerFire)
    /\ WF_vars(ShutdownRuns)

\* -------------------------------------------------------- MessageWriter
WThreads == 1..NumWThreads
Payloads == {<<1>>, <<2>>, <<1, 2>>}

\* time.Second.  A time.Duration counts nanoseconds in the code; here it counts
\* milliseconds, so that the values stay within TLC's integers.
Second == 1000
DelayArgs == {0 - 2 * Second, 0 - 1500, 0, 1500, 2 * Second, 900 * Second,
              900 * Second + 1, 901 * Second, 1000 * Second}

\* Go's integer division and remainder truncate toward zero
GoDiv(a, b) == IF a >= 0 THEN a \div b ELSE 0 - ((0 - a) \div b)
GoRem(a, b) == a - b * GoDiv(a, b)

\* A float64 number of seconds is held as its count of thousandths.
\* Duration.Seconds(): sec := d / Second; nsec := d % Second;
\* float64(sec) + float64(nsec)/1e9
DurationSeconds(d) == GoDiv(d, Second) * 1000 + (GoRem(d, Second) * 1000) \div Second
MathMax(x, y) == IF x > y THEN x ELSE y
MathMin(x, y) == IF x < y THEN x ELSE y
\* int64(f): the fraction is dropped
Int64(f) == GoDiv(f, 1000)

\* a mutant of SetDelayValue: the upper limit is not applied
SetDelayValueNoMin(d) == Int64(MathMax(DurationSeconds(d), 0))

\* int64(math.Min(math.Max(delay.Seconds(), 0), 900))
SetDelayValue(d) == Int64(MathMin(MathMax(DurationSeconds(d), 0), 900 * 1000))

\* Topic.NewWriter
NewWriter ==
    /\ wbuf = <<>>
    /\ wclosed = FALSE
    /\ wmux = 0
    /\ wdelay = 0
    /\ sends = <<>>
    /\ sendRets = <<>>

\* Write(p) is called and w.mux.Lock() returns
WriteLock(t, p) ==
    /\ wpc[t] = "idle"
    /\ wcalls < MaxWCalls
    /\ wmux = 0
    /\ wmux' = t
    /\ wcalls' = wcalls + 1
    /\ wpc' = [wpc EXCEPT ![t] = "Write"]
    /\ warg' = [warg EXCEPT ![t] = p]
    /\ wret' = [wret EXCEPT ![t] = [op |-> "Write", n |-> 0, err |-> "pending"]]
    /\ wsawClosed' = [wsawClosed EXCEPT ![t] = wclosed]
    /\ UNCHANGED <<wbuf, wclosed, wdelay, sends, sendRets, wlastDelay, wokBytes, serverVars>>

\* a mutant of WriteBody: closed is not tested
WriteBodyNoCheck(t) ==
    /\ wpc[t] = "Write"
    /\ wbuf' = wbuf \o warg[t]
    /\ wret' = [wret EXCEPT ![t] = [op |-> "Write", n |-> Len(warg[t]), err |-> "nil"]]
    /\ wokBytes' = IF wret'[t].err = "nil" THEN wokBytes \o warg[t] ELSE wokBytes
    /\ wmux' = 0
    /\ wpc' = [wpc EXCEPT ![t] = "idle"]
    /\ UNCHANGED <<wclosed, wdelay, warg, wsawClosed, sends, sendRets, wcalls, wlastDelay, serverVars>>

\* if w.closed { return 0, ErrClosedMessageWriter }; return w.buf.Write(p)
\* and the deferred w.mux.Unlock()
WriteBody(t) ==
    /\ wpc[t] = "Write"
    /\ IF wclosed
         THEN /\ wret' = [wret EXCEPT ![t] =
                            [op |-> "Write", n |-> 0, err |-> "ErrClosedMessageWriter"]]
              /\ UNCHANGED wbuf
         ELSE /\ wbuf' = wbuf \o warg[t]
              /\ wret' = [wret EXCEPT ![t] =
                            [op |-> "Write", n |-> Len(warg[t]), err |-> "nil"]]
    /\ wokBytes' = IF wret'[t].err = "nil" THEN wokBytes \o warg[t] ELSE wokBytes
    /\ wmux' = 0
    /\ wpc' = [wpc EXCEPT ![t] = "idle"]
    /\ UNCHANGED <<wclosed, wdelay, warg, wsawClosed, sends, sendRets, wcalls, wlastDelay, serverVars>>

\* Close() is called and w.mux.Lock() returns
CloseLock(t) ==
    /\ wpc[t] = "idle"
    /\ wcalls < MaxWCalls
    /\ wmux = 0
    /\ wmux' = t
    /\ wcalls' = wcalls + 1
    /\ wpc' = [wpc EXCEPT ![t] = "Close"]
    /\ wret' = [wret EXCEPT ![t] = [op |-> "Close", n |-> 0, err |-> "pending"]]
    /\ wsawClosed' = [wsawClosed EXCEPT ![t] = wclosed]
    /\ UNCHANGED <<wbuf, wclosed, wdelay, warg, sends, sendRets, wlastDelay, wokBytes, serverVars>>

\* if w.closed { return ErrClosedMessageWriter }; w.closed = true
CloseCheck(t) ==
    /\ wpc[t] = "Close"
    /\ IF wclosed
         THEN /\ wret' = [wret EXCEPT ![t] =
                            [op |-> "Close", n |-> 0, err |-> "ErrClosedMessageWriter"]]
              /\ wmux' = 0
              /\ wpc' = [wpc EXCEPT ![t] = "idle"]
              /\ UNCHANGED wclosed
         ELSE /\ wclosed' = TRUE
              /\ wpc' = [wpc EXCEPT ![t] = "Send"]
              /\ UNCHANGED <<wret, wmux>>
    /\ UNCHANGED <<wbuf, wdelay, warg, wsawClosed, sends, sendRets, wcalls, wlastDelay, wokBytes, serverVars>>

\* params := &sqs.SendMessageInput{DelaySeconds, MessageBody, QueueUrl}
SendMessageInput == [DelaySeconds |-> wdelay, MessageBody |-> wbuf]

\* a mutant of CloseSend: a failed send reopens the writer
CloseSendReopen(t, err) ==
    /\ wpc[t] = "Send"
    /\ sends' = Append(sends, SendMessageInput)
    /\ sendRets' = Append(sendRets, err)
    /\ wclosed' = (err = "nil")
    /\ wret' = [wret EXCEPT ![t] = [op |-> "Close", n |-> 0, err |-> err]]
    /\ wmux' = 0
    /\ wpc' = [wpc EXCEPT ![t] = "idle"]
    /\ UNCHANGED <<wbuf, wdelay, warg, wsawClosed, wcalls, wlastDelay, wokBytes, serverVars>>

\* _, err := w.sqsClient.SendMessageWithContext(w.ctx, params); return err
\* and the deferred w.mux.Unlock()
CloseSend(t, err) ==
    /\ wpc[t] = "Send"
    /\ sends' = Append(sends, SendMessageInput)
    /\ sendRets' = Append(sendRets, err)
    /\ wret' = [wret EXCEPT ![t] = [op |-> "Close", n |-> 0, err |-> err]]
    /\ wmux' = 0
    /\ wpc' = [wpc EXCEPT ![t] = "idle"]
    /\ UNCHANGED <<wbuf, wclosed, wdelay, warg, wsawClosed, wcalls, wlastDelay, wokBytes, serverVars>>

\* SetDelay(delay): takes no lock and does not test closed
SetDelay(d) ==
    /\ wdelay' = SetDelayValue(d)
    /\ wlastDelay' = d
    /\ UNCHANGED <<wbuf, wclosed, wmux, wpc, warg, wret, wsawClosed, sends, sendRets, wcalls, wokBytes,
                   serverVars>>

\* ------------------------------------------------- the writer's machine
\* the server's variables while the writer runs: a server nobody serves
ServerIdle ==
    /\ NewServer(1, 30)
    /\ srvPc = "idle" /\ srvRet = "none" /\ recvErr = "none"
    /\ received = 0 /\ dispatched = 0
    /\ hpc = [h \in Handles |-> "none"]
    /\ hret = [h \in Handles |-> "none"]
    /\ hack = [h \in Handles |-> "none"]
    /\ deleted = [h \in Handles |-> 0]
    /\ visChanged = [h \in Handles |-> <<>>]
    /\ sdPc = "idle" /\ sdCalls = 0 /\ sdRet = "none"
    /\ ctxDone = FALSE /\ ctxExpiredAtCall = FALSE /\ ctxDoneBusy = FALSE

WInit ==
    /\ ServerIdle
    /\ NewWriter
    /\ wpc = [t \in WThreads |-> "idle"]
    /\ warg = [t \in WThreads |-> <<>>]
    /\ wret = [t \in WThreads |-> [op |-> "none", n |-> 0, err |-> "none"]]
    /\ wsawClosed = [t \in WThreads |-> FALSE]
    /\ wcalls = 0
    /\ wlastDelay = 0
    /\ wokBytes = <<>>

WNext ==
    \/ \E t \in WThreads, p \in Payloads : WriteLock(t, p)
    \/ \E t \in WThreads : WriteBody(t)
    \/ \E t \in WThreads : CloseLock(t)
    \/ \E t \in WThreads : CloseCheck(t)
    \/ \E t \in WThreads, err \in {"nil", "errSend"} : CloseSend(t, err)
    \/ \E d \in DelayArgs : SetDelay(d)

SpecW == WInit /\ [][WNext]_vars

\* ================================================================ claims
ShutdownReturned(ret) == sdPc = "returned" /\ sdRet = ret
ShutdownReturns(ret) == sdPc # "returned" /\ sdPc' = "returned" /\ sdRet' = ret

\* C1: the handler invocations dispatched and not yet released never number
\* more than the configured concurrency, a configured value below 1 counting as 1.
C1_InFlightWithinCap ==
    InFlight <= (IF clArg < 1 THEN 1 ELSE clArg)

\* the loop stands blocked at a full gate of a server configured with 0, after Shutdown
C1_Witness ==
    /\ clArg < 1
    /\ InFlight = 1
    /\ srvPc = "acquire"
    /\ serverDone

\* C2: a handler invocation whose Receive returned nil makes one DeleteMessage
\* call for its receipt handle (none before the call, one after it, whatever it
\* returns) and no ChangeMessageVisibility call.
C2_SuccessDeletesOnce ==
    \A h \in Handles :
        hret[h] = "nil" =>
            /\ visChanged[h] = <<>>
            /\ (hpc[h] = "ack" => deleted[h] = 0)
            /\ (hpc[h] \in {"release", "done"} => deleted[h] = 1)

\* a handler succeeded, its delete call failed, and the invocation is over
C2_Witness ==
    \E h \in Handles :
        hret[h] = "nil" /\ hack[h] = "err" /\ hpc[h] = "done" /\ deleted[h] = 1

\* C3: a handler invocation whose Receive returned an error makes one
\* ChangeMessageVisibility call for its receipt handle, with the configured
\* retry timeout, and no DeleteMessage call.
C3_FailureChangesVisibilityOnce ==
    \A h \in Handles :
        hret[h] = "err" =>
            /\ deleted[h] = 0
            /\ (hpc[h] = "ack" => visChanged[h] = <<>>)
            /\ (hpc[h] \in {"release", "done"} => visChanged[h] = <<retryTimeout>>)

\* a handler failed on a server configured with retry timeout 30, and is over
C3_Witness ==
    \E h \in Handles :
        /\ hret[h] = "err" /\ hpc[h] = "done"
        /\ retryTimeout = 30 /\ visChanged[h] = <<30>>

\* C4: a Shutdown called with its deadline still ahead returns the deadline's
\* error only when the deadline elapsed while a handler still held a gate slot;
\* with a deadline that lets every handler in flight finish, it returns
\* ErrServerClosed.
C4_AsClaimed ==
    ShutdownReturned("ctxErr") /\ ~ctxExpiredAtCall => ctxDoneBusy

\* what the code gives in place of C4: Shutdown returns the deadline's error
\* only after the deadline has elapsed, and a Shutdown in progress comes to see
\* its deadline elapse or returns ErrServerClosed.
CleanUnlessDeadline ==
    /\ [](ShutdownReturned("ctxErr") => ctxDone)
    /\ (sdPc \in {"enter", "select", "tick"}) ~> (ctxDone \/ ShutdownReturned("ErrServerClosed"))

\* C5 as claimed: a Shutdown whose deadline was over before it returned (expired
\* at the call, or elapsed before the poll that found the gate empty) returned
\* the deadline's error, with the receivers cancelled.
C5_AsClaimed ==
    (sdPc = "returned" /\ ctxDone) => (sdRet = "ctxErr" /\ receiverDone)

\* C5 as amended: a Shutdown called with an expired deadline returns the
\* deadline's error; one whose deadline elapses before its select or while it is
\* blocked in it returns the deadline's error as its next step; the receivers
\* are cancelled whenever the deadline's error is returned; ErrServerClosed is
\* returned only by a poll that finds the gate empty.
C5_DeadlineError ==
    /\ [](sdPc = "returned" /\ ctxExpiredAtCall => sdRet = "ctxErr")
    /\ [](ShutdownReturned("ctxErr") => receiverDone /\ ctxDone)
    /\ [][(sdPc = "ctxcase" \/ (sdPc = "enter" /\ ctxDone)) /\ sdPc' # sdPc
            => ShutdownReturns("ctxErr") /\ receiverDone']_vars
    /\ [][ShutdownReturns("ErrServerClosed") => sdPc = "tick" /\ gateLen = 0]_vars

\* the deadline elapsed with handlers in flight and Shutdown returned its error
C5_Witness ==
    /\ ShutdownReturned("ctxErr")
    /\ ctxDoneBusy
    /\ receiverDone
    /\ InFlight > 0

\* C6: when Shutdown returns ErrServerClosed no handler is in flight, and once it
\* has returned so while Serve runs, no receive call of Serve brings in a
\* message and Serve dispatches no handler.
C6_AsClaimed ==
    [][/\ ShutdownReturns("ErrServerClosed") => InFlight = 0
       /\ (ShutdownReturned("ErrServerClosed") /\ srvPc # "idle") =>
             /\ received' = received
             /\ dispatched' = dispatched]_vars

\* C9: once ReceiveMessage has returned an error Serve has returned that error,
\* and a Serve that has returned receives and dispatches nothing more.
C9_ReceiveErrorIsFatal ==
    /\ [](recvErr # "none" => srvPc = "returned" /\ srvRet = recvErr)
    /\ [][srvPc = "returned" => UNCHANGED <<srvPc, srvRet, recvErr, received, dispatched>>]_vars

\* a receive failed after an earlier batch was dispatched, handlers still in flight
C9_Witness ==
    /\ recvErr = "errRecvB"
    /\ srvRet = "errRecvB"
    /\ dispatched > 0
    /\ InFlight > 0

\* C10: Serve has returned only if Shutdown was called.
C10_AsClaimed ==
    srvPc = "returned" => sdCalls > 0

\* C7: a Write or Close that took the lock of a closed writer returns
\* ErrClosedMessageWriter; a closed writer stays closed; one send is made,
\* by the Close that closed the writer, whether or not it fails.
C7_ClosedOnce ==
    /\ [](\A t \in WThreads :
            wsawClosed[t] /\ wpc[t] = "idle" => wret[t].err = "ErrClosedMessageWriter")
    /\ [](Len(sends) <= 1)
    /\ [](wclosed /\ (\A t \in WThreads : wpc[t] # "Send") => Len(sends) = 1)
    /\ [](~wclosed => sends = <<>>)
    /\ [][wclosed => wclosed']_vars

\* the send of the first Close failed, and a later Close and a later Write
\* were both refused
C7_Witness ==
    /\ Len(sends) = 1
    /\ sendRets = <<"errSend">>
    /\ wclosed
    /\ \E t, u \in WThreads :
          /\ wret[t] = [op |-> "Write", n |-> 0, err |-> "ErrClosedMessageWriter"]
          /\ wret[u] = [op |-> "Close", n |-> 0, err |-> "ErrClosedMessageWriter"]
    /\ wcalls = MaxWCalls

\* the seconds SetDelay is to store for a delay of s whole seconds
ClampSeconds(s) == IF s < 0 THEN 0 ELSE IF s > 900 THEN 900 ELSE s

\* C8: after SetDelay with a whole number of seconds the stored delay is that
\* number brought into 0..900, and a send publishes the stored delay.
C8_DelayClamped ==
    /\ [](GoRem(wlastDelay, Second) = 0 => wdelay = ClampSeconds(GoDiv(wlastDelay, Second)))
    /\ [][Len(sends') > Len(sends) /\ GoRem(wlastDelay, Second) = 0 =>
            sends'[Len(sends')].DelaySeconds = ClampSeconds(GoDiv(wlastDelay, Second))]_vars

\* SetDelay(1000 s) was followed by a Close that published a delay of 900
C8_Witness ==
    /\ wlastDelay = 1000 * Second
    /\ Len(sends) = 1
    /\ sends[1].DelaySeconds = 900
    /\ sends[1].MessageBody # <<>>


\* C11: a cancelled receiver lifetime means a cancelled server lifetime; the
\* step that cancels the server lifetime leaves the receiver lifetime as it
\* was; the receiver lifetime is cancelled only by a Shutdown that returns its
\* deadline's error, after that deadline elapsed.
C11_ReceiverImpliesServer ==
    /\ [](receiverDone => serverDone)
    /\ [][~serverDone /\ serverDone' => receiverDone' = receiverDone]_vars
    /\ [][sdPc' = "enter" /\ sdPc # "enter" => receiverDone' = receiverDone]_vars
    /\ [][~receiverDone /\ receiverDone' => ctxDone /\ serverDone /\ ShutdownReturns("ctxErr")]_vars

\* Shutdown has cancelled the server lifetime and waits, its deadline ahead,
\* with a handler in flight whose receiver lifetime is not cancelled
C11_Witness ==
    /\ serverDone
    /\ ~receiverDone
    /\ sdPc = "select"
    /\ ~ctxDone
    /\ \E h \in Handles : hpc[h] = "Receive"


\* the slot Serve has taken for the message whose go statement has not run yet
SlotBeforeSpawn == IF srvPc = "spawn" THEN 1 ELSE 0

\* C12: the gate holds one slot for each handler invocation that has not
\* released, and none for one that has; an invocation that ends gives one slot
\* back, on each path, and stays ended; when the handlers run to their end,
\* no invocation is left holding a slot and, once Serve has returned, the gate
\* is empty for good.
C12_SlotReleasedOnce ==
    /\ [](gateLen = InFlight + SlotBeforeSpawn)
    /\ [][\A h \in Handles :
            /\ (hpc[h] # "done" /\ hpc'[h] = "done") =>
                  (hpc[h] = "release" /\ gateLen' = gateLen - 1)
            /\ (hpc[h] = "done" => hpc'[h] = "done")]_vars
    /\ <>[](InFlight = 0 /\ (srvPc = "returned" => gateLen = 0))

\* two invocations are over, one whose handler succeeded and whose delete
\* failed, one whose handler failed and whose visibility call failed, and the
\* gate is empty
C12_Witness ==
    /\ gateLen = 0
    /\ \E h, k \in Handles :
          /\ hpc[h] = "done" /\ hret[h] = "nil" /\ hack[h] = "err"
          /\ hpc[k] = "done" /\ hret[k] = "err" /\ hack[k] = "err"


\* C13: for each message, the DeleteMessage or ChangeMessageVisibility call is
\* made when its handler invocation has returned, and its gate slot is released
\* when that call has returned; nothing orders two different messages.
C13_CausalOrder ==
    /\ [][\A h \in Handles :
            /\ (deleted'[h] # deleted[h] \/ visChanged'[h] # visChanged[h]) =>
                  (hret[h] # "none" /\ hpc[h] = "ack")
            /\ (hpc[h] # "done" /\ hpc'[h] = "done") =>
                  (hack[h] # "none" /\ deleted'[h] = deleted[h]
                     /\ visChanged'[h] = visChanged[h])]_vars
    /\ [](\A h \in Handles :
            /\ (deleted[h] > 0 \/ visChanged[h] # <<>> \/ hack[h] # "none") =>
                  hret[h] # "none"
            /\ hpc[h] \in {"release", "done"} => hack[h] # "none")

\* the message dispatched second is through all three steps while the handler
\* of the message dispatched first has not returned
C13_Witness ==
    /\ hpc[1] = "Receive" /\ hret[1] = "none" /\ deleted[1] = 0
    /\ hpc[2] = "done" /\ hack[2] # "none"


\* C14: once the deadline of a Shutdown call has elapsed the call returns,
\* whatever the handlers do (no handler is required to take a step); Shutdown
\* takes no slot out of the gate, so a handler that has not released still
\* holds its slot after Shutdown has returned.
C14_DeadlineEndsShutdown ==
    /\ (ctxDone /\ sdPc \in {"enter", "tick", "ctxcase"}) ~> (sdPc = "returned")
    /\ [][sdPc' # sdPc \/ sdRet' # sdRet => gateLen' = gateLen /\ hpc' = hpc]_vars
    /\ [](ShutdownReturned("ctxErr") => InFlight <= gateLen)

\* the deadline elapsed during the call, Shutdown has cancelled the receivers
\* and returned ctx.Err(), and a handler is still inside Receive with its slot
C14_Witness ==
    /\ ShutdownReturned("ctxErr") /\ ~ctxExpiredAtCall /\ receiverDone
    /\ \E h \in Handles : hpc[h] = "Receive"
    /\ gateLen > 0


\* the handler invocations that have released their slot
Released == {h \in Handles : hpc[h] = "done"}

\* C15: a dispatch is made with a slot taken just before it, and the slot is
\* taken only when the gate has room; while the gate is full the loop stays at
\* the acquire and dispatches nothing, so as many handlers have released as
\* there are dispatches beyond the cap (with cap 1, never two in flight); when
\* the gate has room, or the loop is anywhere else in its body, the loop can
\* take its next step whatever the handlers are doing.
C15_GateBlocksWhenFull ==
    /\ [][dispatched' # dispatched =>
            srvPc = "spawn" /\ gateLen >= 1 /\ gateLen' = gateLen]_vars
    /\ [][srvPc # "spawn" /\ srvPc' = "spawn" =>
            srvPc = "acquire" /\ gateLen < gateCap /\ gateLen' = gateLen + 1]_vars
    /\ [][srvPc = "acquire" /\ gateLen = gateCap =>
            srvPc' = "acquire" /\ dispatched' = dispatched]_vars
    /\ [](/\ Cardinality(Released) >= dispatched + SlotBeforeSpawn - gateCap
          /\ gateCap = 1 => InFlight <= 1
          /\ (srvPc \in {"select", "receive", "spawn"}
                \/ (srvPc = "acquire" /\ gateLen < gateCap)) => ENABLED ServeRuns)

\* cap 1 and two messages: the second was dispatched after the first released,
\* and the loop is polling again while the second handler has not returned
C15_Witness ==
    /\ gateCap = 1 /\ dispatched = 2
    /\ hpc[1] = "done" /\ hpc[2] = "Receive"
    /\ srvPc = "receive"


\* C16: a step of a handler goroutine (the return of the handler, of
\* DeleteMessage or of ChangeMessageVisibility, failed or not) changes neither
\* where the Serve loop is nor what it returns; Serve ends only at the select
\* that finds the server cancelled or at a failed ReceiveMessage, and what it
\* returns is ErrServerClosed or the error of that receive.
C16_HandlerErrorsContained ==
    /\ [][hret' # hret \/ hack' # hack \/ (hpc' # hpc /\ dispatched' = dispatched) =>
            srvPc' = srvPc /\ srvRet' = srvRet /\ recvErr' = recvErr]_vars
    /\ [][srvPc # "returned" /\ srvPc' = "returned" =>
            \/ srvPc = "select" /\ serverDone /\ srvRet' = "ErrServerClosed"
            \/ srvPc = "receive" /\ recvErr' \in RecvErrors /\ srvRet' = recvErr']_vars
    /\ [](srvPc = "returned" <=> srvRet \in RecvErrors \cup {"ErrServerClosed"})
    /\ [](srvPc # "returned" => srvRet = "none")

\* the first handler failed and its ChangeMessageVisibility failed, the second
\* succeeded and its DeleteMessage failed, and the loop is polling again
C16_Witness ==
    /\ hret[1] = "err" /\ hack[1] = "err" /\ hpc[1] = "done"
    /\ hret[2] = "nil" /\ hack[2] = "err" /\ hpc[2] = "done"
    /\ srvPc = "receive" /\ srvRet = "none"


\* C17: once the server lifetime is cancelled the Serve loop starts no receive
\* call and dispatches no handler invocation, and the cancellation itself
\* leaves the handlers dispatched before it as they are.
C17_AsClaimed ==
    [][/\ serverDone =>
             /\ ~(srvPc = "select" /\ srvPc' = "receive")
             /\ dispatched' = dispatched
       /\ (~serverDone /\ serverDone') => (hpc' = hpc /\ gateLen' = gateLen)]_vars


\* C18: when the receive calls return and the handlers release their slots, a
\* Serve that runs while the server lifetime is cancelled returns in the end;
\* a Serve that returns with no receive call failed returns ErrServerClosed,
\* ErrServerClosed is returned only with the server lifetime cancelled, and the
\* select that finds the cancellation returns whatever the handlers in flight.
C18_ServeReturnsAfterCancel ==
    /\ (serverDone /\ srvPc # "idle") ~> (srvPc = "returned")
    /\ [](srvPc = "returned" /\ recvErr = "none" => srvRet = "ErrServerClosed")
    /\ [](srvRet = "ErrServerClosed" => serverDone /\ recvErr = "none")
    /\ [](srvPc = "select" /\ serverDone => ENABLED ServeSelect)
    /\ [][srvPc = "select" /\ serverDone /\ srvPc' # srvPc =>
            srvRet' = "ErrServerClosed" /\ hpc' = hpc /\ gateLen' = gateLen]_vars

\* Serve has returned ErrServerClosed while a handler is still inside Receive
C18_Witness ==
    /\ srvPc = "returned" /\ srvRet = "ErrServerClosed" /\ serverDone
    /\ \E h \in Handles : hpc[h] = "Receive"


\* C19: the gate is closed by the step of Serve that returns ErrServerClosed,
\* which finds it open, and it stays closed; with the gate closed Serve has
\* returned, so nothing is sent into it; a handler that reaches its release
\* with the gate closed can take its element out, and the length of the closed
\* gate, the one a tick of Shutdown reads, is the number of handlers that have
\* not released.
C19_ClosedGateStillCounts ==
    /\ [][/\ gateClosed' # gateClosed =>
                ~gateClosed /\ srvPc = "select" /\ srvPc' = "returned"
          /\ gateClosed => gateClosed' /\ gateLen' <= gateLen]_vars
    /\ [](gateClosed =>
            /\ srvPc = "returned"
            /\ gateLen = InFlight
            /\ \A h \in Handles : hpc[h] = "release" => ENABLED HandlerRelease(h))
    /\ [][gateClosed /\ sdPc = "tick" /\ sdPc' # sdPc =>
            (sdPc' = "returned" /\ sdRet' = "ErrServerClosed") <=> InFlight = 0]_vars

\* the gate is closed with two handlers in flight, one of them at its release,
\* and a tick of Shutdown is about to read the length
C19_Witness ==
    /\ gateClosed /\ gateLen = 2 /\ InFlight = 2
    /\ \E h \in Handles : hpc[h] = "release"
    /\ sdPc = "tick"


\* C20: the calls hold the mutex one at a time, so the Writes return in the
\* order in which they took the lock; the buffer is at every moment the bytes
\* of the Writes that returned no error, in that order, and the body of the
\* send is that same sequence, none being added after it; a Write that returns
\* ErrClosedMessageWriter returns 0 and leaves the buffer as it was.
C20_BodyIsSuccessfulWrites ==
    /\ [](\A t \in WThreads : wpc[t] # "idle" => wmux = t)
    /\ [](wbuf = wokBytes)
    /\ [](sends # <<>> => sends[1].MessageBody = wokBytes)
    /\ [][\A t \in WThreads : wpc[t] = "Write" /\ wpc'[t] = "idle" =>
            IF wret'[t].err = "nil"
              THEN wbuf' = wbuf \o warg[t] /\ wret'[t].n = Len(warg[t]) /\ ~wclosed
              ELSE /\ wret'[t] = [op |-> "Write", n |-> 0, err |-> "ErrClosedMessageWriter"]
                   /\ wbuf' = wbuf /\ wclosed /\ sends' = sends]_vars

\* two threads wrote 2 and then 1, both with success, and the Close sent the
\* body 2 1
C20_Witness ==
    /\ Len(sends) = 1 /\ sends[1].MessageBody = <<2, 1>>
    /\ \E t, u \in WThreads :
          /\ t # u
          /\ wret[t] = [op |-> "Write", n |-> 1, err |-> "nil"] /\ warg[t] = <<2>>
          /\ wret[u].op = "Close" /\ warg[u] = <<1>>

====
